---- MODULE Spec2Model ----
(***************************************************************************)
(* RustgEloquent: the query builder (src/src/orm/query.rs), its SQL        *)
(* rendering and pagination arithmetic, and the relation objects           *)
(* (src/src/orm/relations/*.rs) that derive constrained queries.           *)
(*                                                                         *)
(* A Rust String is a TLA+ string; Option<X> is a record with a `some`     *)
(* flag; serde_json::Value is a record tagged by `kind`.                   *)
(***************************************************************************)
EXTENDS Integers, Sequences, FiniteSets, TLC

\* ------------------------------------------------------------------ bounds

\* Builder calls chained on one Query before it is rendered or executed.
MaxCalls == 3
\* Largest page number passed to paginate.
MaxPage == 4
\* Largest per_page passed to paginate.
MaxPerPage == 10
\* Largest row count considered for the pagination arithmetic.
MaxTotal == 25
\* Related ids range over 1..MaxId in attach / detach / sync.
MaxId == 3
\* Most rows the queried table holds when count or exists is called.
MaxRows == 3

\* ------------------------------------------------------------ Option, Value

None == [some |-> FALSE]
Some(x) == [some |-> TRUE, v |-> x]

VString(s) == [kind |-> "String", s |-> s]
VNumber(n) == [kind |-> "Number", is_i64 |-> TRUE, n |-> n]
\* A Number that as_i64 cannot return (a u64 above i64::MAX, a float); `text`
\* is its decimal rendering.
VNumberWide(text) == [kind |-> "Number", is_i64 |-> FALSE, text |-> text]
VBool(b) == [kind |-> "Bool", b |-> b]
VNull == [kind |-> "Null"]
VArray(arr) == [kind |-> "Array", arr |-> arr]
VObject == [kind |-> "Object"]

\* serde_json::Number::to_string / i64::to_string
NumberToString(v) == IF v.is_i64 THEN ToString(v.n) ELSE v.text
\* bool::to_string
BoolToString(b) == IF b THEN "true" ELSE "false"
\* Value::as_i64
as_i64(v) == IF v.kind = "Number" /\ v.is_i64 THEN Some(v.n) ELSE None
\* Value::as_str
as_str(v) == IF v.kind = "String" THEN Some(v.s) ELSE None

\* str::to_uppercase on the direction strings the model passes to order_by.
to_uppercase(s) ==
    CASE s = "asc" -> "ASC"
      [] s = "desc" -> "DESC"
      [] s = "sideways" -> "SIDEWAYS"
      [] OTHER -> s

\* [String]::join(sep)
RECURSIVE JoinStr(_, _)
JoinStr(seq, sep) ==
    IF seq = <<>> THEN ""
    ELSE IF Len(seq) = 1 THEN seq[1]
    ELSE seq[1] \o sep \o JoinStr(Tail(seq), sep)

\* ---------------------------------------------------------- model descriptors

\* Entity types implementing Model. User and Post are the repository's
\* examples; Glass is a type whose table name ends in a double `s` and whose
\* primary key is not the default.
Types == {"User", "Post", "Glass"}

\* Model::table_name, as a sequence of characters.
table_name_chars(T) ==
    CASE T = "User" -> <<"u", "s", "e", "r", "s">>
      [] T = "Post" -> <<"p", "o", "s", "t", "s">>
      [] T = "Glass" -> <<"g", "l", "a", "s", "s">>

\* Model::table_name
table_name(T) == JoinStr(table_name_chars(T), "")

\* Model::primary_key (default "id")
primary_key(T) == IF T = "Glass" THEN "uuid" ELSE "id"

\* ------------------------------------------------------------- query builder

\* Query::new
Query_new(T) ==
    [ T |-> T,
      table |-> None,
      select_columns |-> <<"*">>,
      where_conditions |-> <<>>,
      joins |-> <<>>,
      order_by |-> <<>>,
      limit_value |-> None,
      offset_value |-> None,
      group_by |-> <<>>,
      having_conditions |-> <<>>,
      with_relations |-> <<>> ]

WhereCondition(column, operator, value, boolean) ==
    [column |-> column, operator |-> operator, value |-> value, boolean |-> boolean]

Join(tbl, first, operator, second, join_type) ==
    [table |-> tbl, first |-> first, operator |-> operator, second |-> second,
     join_type |-> join_type]

OrderBy(column, direction) == [column |-> column, direction |-> direction]

select(self, columns) == [self EXCEPT !.select_columns = columns]

select_raw(self, sql) == [self EXCEPT !.select_columns = <<sql>>]

where_clause(self, column, value) ==
    [self EXCEPT !.where_conditions =
        Append(@, WhereCondition(column, "=", VString(value), "AND"))]

where_op(self, column, operator, value) ==
    [self EXCEPT !.where_conditions =
        Append(@, WhereCondition(column, operator, value, "AND"))]

where_in(self, column, values) ==
    [self EXCEPT !.where_conditions =
        Append(@, WhereCondition(column, "IN", VArray(values), "AND"))]

\* where_not_in pushing the operator of where_in.
where_not_in_as_in(self, column, values) ==
    [self EXCEPT !.where_conditions =
        Append(@, WhereCondition(column, "IN", VArray(values), "AND"))]

where_not_in(self, column, values) ==
    [self EXCEPT !.where_conditions =
        Append(@, WhereCondition(column, "NOT IN", VArray(values), "AND"))]

where_null(self, column) ==
    [self EXCEPT !.where_conditions =
        Append(@, WhereCondition(column, "IS NULL", VNull, "AND"))]

where_not_null(self, column) ==
    [self EXCEPT !.where_conditions =
        Append(@, WhereCondition(column, "IS NOT NULL", VNull, "AND"))]

or_where(self, column, operator, value) ==
    [self EXCEPT !.where_conditions =
        Append(@, WhereCondition(column, operator, value, "OR"))]

join(self, tbl, first, operator, second) ==
    [self EXCEPT !.joins = Append(@, Join(tbl, first, operator, second, "INNER"))]

left_join(self, tbl, first, operator, second) ==
    [self EXCEPT !.joins = Append(@, Join(tbl, first, operator, second, "LEFT"))]

right_join(self, tbl, first, operator, second) ==
    [self EXCEPT !.joins = Append(@, Join(tbl, first, operator, second, "RIGHT"))]

\* order_by putting the new entry before the entries already held.
order_by_prepending(self, column, direction) ==
    [self EXCEPT !.order_by = <<OrderBy(column, to_uppercase(direction))>> \o @]

order_by(self, column, direction) ==
    [self EXCEPT !.order_by = Append(@, OrderBy(column, to_uppercase(direction)))]

order_by_asc(self, column) == order_by(self, column, "ASC")

order_by_desc(self, column) == order_by(self, column, "DESC")

latest(self, column) ==
    LET col == IF column.some THEN column.v ELSE "created_at"
    IN  order_by_desc(self, col)

oldest(self, column) ==
    LET col == IF column.some THEN column.v ELSE "created_at"
    IN  order_by_asc(self, col)

\* limit adding its argument to a limit already set.
limit_accumulating(self, n) ==
    [self EXCEPT !.limit_value = IF @.some THEN Some(@.v + n) ELSE Some(n)]

limit(self, n) == [self EXCEPT !.limit_value = Some(n)]

offset(self, n) == [self EXCEPT !.offset_value = Some(n)]

skip(self, n) == offset(self, n)

\* take that also clears the offset.
take_clearing_offset(self, n) == [limit(self, n) EXCEPT !.offset_value = None]

take(self, n) == limit(self, n)

group_by(self, columns) == [self EXCEPT !.group_by = columns]

having(self, column, operator, value) ==
    [self EXCEPT !.having_conditions =
        Append(@, WhereCondition(column, operator, value, "AND"))]

with(self, relations) == [self EXCEPT !.with_relations = relations]

\* ------------------------------------------------------------- SQL rendering

\* The inner match of to_sql: one element of an array value.
RenderArrayElement(v) ==
    CASE v.kind = "String" -> "'" \o v.s \o "'"
      [] v.kind = "Number" -> NumberToString(v)
      [] OTHER -> "NULL"

\* RenderWhereValue with a string value left bare, as a number is.
RenderWhereValueBareString(v) ==
    CASE v.kind = "String" -> v.s
      [] v.kind = "Number" -> NumberToString(v)
      [] v.kind = "Bool" -> BoolToString(v.b)
      [] v.kind = "Null" -> "NULL"
      [] v.kind = "Array" ->
            "(" \o JoinStr([i \in 1..Len(v.arr) |-> RenderArrayElement(v.arr[i])], ", ")
                \o ")"
      [] OTHER -> "NULL"

\* The outer match of to_sql: the value operand of a where condition.
RenderWhereValue(v) ==
    CASE v.kind = "String" -> "'" \o v.s \o "'"
      [] v.kind = "Number" -> NumberToString(v)
      [] v.kind = "Bool" -> BoolToString(v.b)
      [] v.kind = "Null" -> "NULL"
      [] v.kind = "Array" ->
            "(" \o JoinStr([i \in 1..Len(v.arr) |-> RenderArrayElement(v.arr[i])], ", ")
                \o ")"
      [] OTHER -> "NULL"

\* impl Display for serde_json::Value (compact JSON), which `{}` applies to
\* the value operand of a having condition.
RECURSIVE JsonDisplay(_)
JsonDisplay(v) ==
    CASE v.kind = "String" -> "\"" \o v.s \o "\""
      [] v.kind = "Number" -> NumberToString(v)
      [] v.kind = "Bool" -> BoolToString(v.b)
      [] v.kind = "Null" -> "null"
      [] v.kind = "Array" ->
            "[" \o JoinStr([i \in 1..Len(v.arr) |-> JsonDisplay(v.arr[i])], ",") \o "]"
      [] OTHER -> "{}"

\* One fragment pushed onto the SQL string, tagged with the block of to_sql
\* that pushes it.
Part(kind, text) == [kind |-> kind, text |-> text]

SelectPart(self) ==
    <<Part("SELECT", "SELECT " \o JoinStr(self.select_columns, ", ")
                       \o " FROM " \o table_name(self.T))>>

JoinParts(self) ==
    [i \in 1..Len(self.joins) |->
        LET j == self.joins[i]
        IN  Part("JOIN", " " \o j.join_type \o " JOIN " \o j.table \o " ON "
                         \o j.first \o " " \o j.operator \o " " \o j.second)]

WhereConditionText(c) ==
    c.column \o " " \o c.operator \o " " \o RenderWhereValue(c.value)

\* WhereConditionParts taking the connective of a cond from the cond before it.
RECURSIVE WhereConditionPartsOfPrevious(_, _)
WhereConditionPartsOfPrevious(conds, i) ==
    IF i > Len(conds) THEN <<>>
    ELSE (IF i > 1 THEN <<Part("WHERE_BOOLEAN", " " \o conds[i - 1].boolean \o " ")>>
                   ELSE <<>>)
         \o <<Part("WHERE_CONDITION", WhereConditionText(conds[i]))>>
         \o WhereConditionPartsOfPrevious(conds, i + 1)

RECURSIVE WhereConditionParts(_, _)
WhereConditionParts(conds, i) ==
    IF i > Len(conds) THEN <<>>
    ELSE (IF i > 1 THEN <<Part("WHERE_BOOLEAN", " " \o conds[i].boolean \o " ")>>
                   ELSE <<>>)
         \o <<Part("WHERE_CONDITION", WhereConditionText(conds[i]))>>
         \o WhereConditionParts(conds, i + 1)

WhereParts(self) ==
    IF self.where_conditions = <<>> THEN <<>>
    ELSE <<Part("WHERE", " WHERE ")>> \o WhereConditionParts(self.where_conditions, 1)

GroupByParts(self) ==
    IF self.group_by = <<>> THEN <<>>
    ELSE <<Part("GROUP BY", " GROUP BY " \o JoinStr(self.group_by, ", "))>>

HavingConditionText(c) ==
    c.column \o " " \o c.operator \o " " \o JsonDisplay(c.value)

RECURSIVE HavingConditionParts(_, _)
HavingConditionParts(conds, i) ==
    IF i > Len(conds) THEN <<>>
    ELSE (IF i > 1 THEN <<Part("HAVING_BOOLEAN", " " \o conds[i].boolean \o " ")>>
                   ELSE <<>>)
         \o <<Part("HAVING_CONDITION", HavingConditionText(conds[i]))>>
         \o HavingConditionParts(conds, i + 1)

HavingParts(self) ==
    IF self.having_conditions = <<>> THEN <<>>
    ELSE <<Part("HAVING", " HAVING ")>>
         \o HavingConditionParts(self.having_conditions, 1)

\* The order_clauses vector of to_sql: one `column direction` text per entry.
order_clauses(self) ==
    [i \in 1..Len(self.order_by) |->
        self.order_by[i].column \o " " \o self.order_by[i].direction]

OrderByParts(self) ==
    IF self.order_by = <<>> THEN <<>>
    ELSE <<Part("ORDER BY", " ORDER BY "),
           Part("ORDER_CLAUSES", JoinStr(order_clauses(self), ", "))>>

LimitParts(self) ==
    IF self.limit_value.some
    THEN <<Part("LIMIT", " LIMIT " \o ToString(self.limit_value.v))>>
    ELSE <<>>

OffsetParts(self) ==
    IF self.offset_value.some
    THEN <<Part("OFFSET", " OFFSET " \o ToString(self.offset_value.v))>>
    ELSE <<>>

\* to_sql_parts with the ORDER BY block moved before the GROUP BY block.
to_sql_parts_order_first(self) ==
    SelectPart(self) \o JoinParts(self) \o WhereParts(self) \o OrderByParts(self)
        \o GroupByParts(self) \o HavingParts(self) \o LimitParts(self)
        \o OffsetParts(self)

\* The fragments to_sql pushes, in the order it pushes them.
to_sql_parts(self) ==
    SelectPart(self) \o JoinParts(self) \o WhereParts(self) \o GroupByParts(self)
        \o HavingParts(self) \o OrderByParts(self) \o LimitParts(self)
        \o OffsetParts(self)

\* Query::to_sql: the string built from the fragments.
to_sql(self) ==
    LET parts == to_sql_parts(self)
    IN  JoinStr([i \in 1..Len(parts) |-> parts[i].text], "")

\* ------------------------------------------------------- terminal operations

\* Query::get: the body returns an empty vector whatever the builder holds.
get(self) == <<>>

\* Query::count: the body returns 0 whatever the builder holds.
count(self) == 0

\* Query::exists
exists(self) == count(self) > 0

\* first_query leaving a limit that is already set.
first_query_keeping_limit(self) == IF self.limit_value.some THEN self ELSE limit(self, 1)

\* Query::first, `let query = self.limit(1)`: the builder first hands to get.
first_query(self) == limit(self, 1)

\* results.into_iter().next()
into_iter_next(results) == IF results = <<>> THEN None ELSE Some(results[1])

\* Query::first
Query_first(self) == into_iter_next(get(first_query(self)))

\* Query::find_by_id, `self.where_clause(T::primary_key(), &id.to_string())`:
\* the builder find_by_id hands to first.
find_by_id_query(self, id) == where_clause(self, primary_key(self.T), ToString(id))

\* Query::find_by_id
find_by_id(self, id) == Query_first(find_by_id_query(self, id))

\* min of two i64
Min(a, b) == IF a < b THEN a ELSE b

\* (total as f64 / per_page as f64).ceil() as i64, for per_page >= 1 and
\* operands small enough to be exact in an f64.
CeilDivF64(total, per_page) ==
    IF total % per_page = 0 THEN total \div per_page ELSE (total \div per_page) + 1

\* Pagination with `to` as the naive offset + per_page.
PaginationNaiveTo(results, page, per_page, total) ==
    LET off == (page - 1) * per_page
    IN  [ data |-> results,
          current_page |-> page,
          per_page |-> per_page,
          total |-> total,
          last_page |-> CeilDivF64(total, per_page),
          from |-> off + 1,
          to |-> off + per_page ]

\* Pagination with `remaining` left unclamped.
PaginationUnclamped(results, page, per_page, total) ==
    LET off == (page - 1) * per_page
        remaining == total - off
    IN  [ data |-> results,
          current_page |-> page,
          per_page |-> per_page,
          total |-> total,
          last_page |-> CeilDivF64(total, per_page),
          from |-> off + 1,
          to |-> off + Min(per_page, remaining) ]

\* The arithmetic of Query::paginate once the page rows and the total are known.
Pagination(results, page, per_page, total) ==
    LET off == (page - 1) * per_page
        remaining == IF total > off THEN total - off ELSE 0
        to_value == off + Min(per_page, remaining)
    IN  [ data |-> results,
          current_page |-> page,
          per_page |-> per_page,
          total |-> total,
          last_page |-> CeilDivF64(total, per_page),
          from |-> off + 1,
          to |-> to_value ]

\* ------------------------------------------------------------------ relations

\* str::trim_end_matches(c), on a sequence of characters.
RECURSIVE trim_end_matches(_, _)
trim_end_matches(chars, c) ==
    IF chars # <<>> /\ chars[Len(chars)] = c
    THEN trim_end_matches(SubSeq(chars, 1, Len(chars) - 1), c)
    ELSE chars

\* format!("{}_id", X::table_name().trim_end_matches('s'))
default_foreign_key(X) == JoinStr(trim_end_matches(table_name_chars(X), "s"), "") \o "_id"

\* Byte order of the characters table names are made of.
CharRank(c) ==
    LET alphabet == <<"_", "a", "b", "c", "d", "e", "f", "g", "h", "i", "j", "k", "l", "m",
                      "n", "o", "p", "q", "r", "s", "t", "u", "v", "w", "x", "y", "z">>
    IN  CHOOSE i \in 1..Len(alphabet) : alphabet[i] = c

\* Ord for &str: a <= b, lexicographically by byte.
RECURSIVE StrLessEq(_, _)
StrLessEq(a, b) ==
    IF a = <<>> THEN TRUE
    ELSE IF b = <<>> THEN FALSE
    ELSE IF CharRank(a[1]) # CharRank(b[1]) THEN CharRank(a[1]) < CharRank(b[1])
    ELSE StrLessEq(Tail(a), Tail(b))

\* default_pivot_table without the sort: the owner's table name first.
default_pivot_table_unsorted(T, R) == table_name(T) \o "_" \o table_name(R)

\* vec![T::table_name(), R::table_name()] sorted, then joined with "_"
default_pivot_table(T, R) ==
    LET a == table_name_chars(T)
        b == table_name_chars(R)
    IN  IF StrLessEq(a, b) THEN table_name(T) \o "_" \o table_name(R)
        ELSE table_name(R) \o "_" \o table_name(T)

\* Option::unwrap_or_else
unwrap_or(opt, default) == IF opt.some THEN opt.v ELSE default

\* An entity instance: its type, what get_key_value returns for it, and the
\* value of its foreign-key attribute (Post.user_id).
Instance(T, key, fk_value) == [T |-> T, key |-> key, fk_value |-> fk_value]

\* Model::get_key_value as the example models implement it.
get_key_value(instance) == instance.key

\* val.as_i64().map(|n| n.to_string()).or_else(|| val.as_str().map(|s| s.to_string()))
key_id_str(val) ==
    IF as_i64(val).some THEN Some(ToString(as_i64(val).v)) ELSE as_str(val)

HasOne_new(parent, R, foreign_key, local_key) ==
    [ kind |-> "HasOne", T |-> parent.T, R |-> R, parent |-> parent,
      foreign_key |-> unwrap_or(foreign_key, default_foreign_key(parent.T)),
      local_key |-> unwrap_or(local_key, primary_key(parent.T)) ]

\* HasMany::new taking the default local key from the related type.
HasMany_new_related_key(parent, R, foreign_key, local_key) ==
    [ kind |-> "HasMany", T |-> parent.T, R |-> R, parent |-> parent,
      foreign_key |-> unwrap_or(foreign_key, default_foreign_key(parent.T)),
      local_key |-> unwrap_or(local_key, primary_key(R)) ]

HasMany_new(parent, R, foreign_key, local_key) ==
    [ kind |-> "HasMany", T |-> parent.T, R |-> R, parent |-> parent,
      foreign_key |-> unwrap_or(foreign_key, default_foreign_key(parent.T)),
      local_key |-> unwrap_or(local_key, primary_key(parent.T)) ]

BelongsTo_new(child, R, foreign_key, owner_key) ==
    [ kind |-> "BelongsTo", T |-> child.T, R |-> R, child |-> child,
      foreign_key |-> unwrap_or(foreign_key, default_foreign_key(R)),
      owner_key |-> unwrap_or(owner_key, primary_key(R)) ]

BelongsToMany_new(parent, R, tbl, foreign_pivot_key, related_pivot_key, parent_key, related_key) ==
    [ kind |-> "BelongsToMany", T |-> parent.T, R |-> R, parent |-> parent,
      table |-> unwrap_or(tbl, default_pivot_table(parent.T, R)),
      foreign_pivot_key |-> unwrap_or(foreign_pivot_key, default_foreign_key(parent.T)),
      related_pivot_key |-> unwrap_or(related_pivot_key, default_foreign_key(R)),
      parent_key |-> unwrap_or(parent_key, primary_key(parent.T)),
      related_key |-> unwrap_or(related_key, primary_key(R)),
      pivot_columns |-> <<>> ]

HasMorphOne_new(parent, R, name, type_column, id_column, local_key) ==
    [ kind |-> "HasMorphOne", T |-> parent.T, R |-> R, parent |-> parent,
      morph_type |-> unwrap_or(type_column, name \o "_type"),
      morph_id |-> unwrap_or(id_column, name \o "_id"),
      local_key |-> unwrap_or(local_key, primary_key(parent.T)) ]

HasMorphMany_new(parent, R, name, type_column, id_column, local_key) ==
    [ kind |-> "HasMorphMany", T |-> parent.T, R |-> R, parent |-> parent,
      morph_type |-> unwrap_or(type_column, name \o "_type"),
      morph_id |-> unwrap_or(id_column, name \o "_id"),
      local_key |-> unwrap_or(local_key, primary_key(parent.T)) ]

\* HasMorphOne::get_morph_type / HasMorphMany::get_morph_type
get_morph_type(self) == table_name(self.T)

\* BelongsTo::get_foreign_key_value: the body returns None.
get_foreign_key_value(self) == None

\* HasOne::get_query with the constraint put on an empty id when the parent
\* has no key value.
HasOne_get_query_blank_key(self) ==
    LET val == get_key_value(self.parent)
        id_str == IF val.some THEN key_id_str(val.v) ELSE Some("")
    IN  IF id_str.some THEN where_clause(Query_new(self.R), self.foreign_key, id_str.v)
        ELSE Query_new(self.R)

HasOne_get_query(self) ==
    LET val == get_key_value(self.parent)
    IN  IF val.some /\ key_id_str(val.v).some
        THEN where_clause(Query_new(self.R), self.foreign_key, key_id_str(val.v).v)
        ELSE Query_new(self.R)

\* HasMany::get_query: the body is Query::new(), the constraint is commented out.
HasMany_get_query(self) == Query_new(self.R)

\* BelongsTo::get_query: the body is Query::new(), the constraint is commented out.
BelongsTo_get_query(self) == Query_new(self.R)

\* BelongsToMany::get_query with the pivot join made a LEFT join.
BelongsToMany_get_query_left_join(self) ==
    LET val == get_key_value(self.parent)
    IN  IF val.some /\ key_id_str(val.v).some
        THEN LET pivot_foreign_col == self.table \o "." \o self.foreign_pivot_key
                 pivot_related_col == self.table \o "." \o self.related_pivot_key
                 related_full_key == table_name(self.R) \o "." \o self.related_key
             IN  where_clause(
                     left_join(Query_new(self.R), self.table, pivot_related_col, "=",
                               related_full_key),
                     pivot_foreign_col, key_id_str(val.v).v)
        ELSE Query_new(self.R)

BelongsToMany_get_query(self) ==
    LET val == get_key_value(self.parent)
    IN  IF val.some /\ key_id_str(val.v).some
        THEN LET pivot_foreign_col == self.table \o "." \o self.foreign_pivot_key
                 pivot_related_col == self.table \o "." \o self.related_pivot_key
                 related_full_key == table_name(self.R) \o "." \o self.related_key
             IN  where_clause(
                     join(Query_new(self.R), self.table, pivot_related_col, "=",
                          related_full_key),
                     pivot_foreign_col, key_id_str(val.v).v)
        ELSE Query_new(self.R)

HasMorphOne_get_query(self) ==
    LET val == get_key_value(self.parent)
    IN  IF val.some
        THEN IF key_id_str(val.v).some
             THEN where_clause(
                      where_clause(Query_new(self.R), self.morph_type, get_morph_type(self)),
                      self.morph_id, key_id_str(val.v).v)
             ELSE Query_new(self.R)
        ELSE where_clause(Query_new(self.R), self.morph_type, get_morph_type(self))

\* HasMorphMany::get_query: the body is Query::new(), the constraints are
\* commented out.
HasMorphMany_get_query(self) == Query_new(self.R)

\* Relation::get_query, dispatched on the relation object.
get_query(self) ==
    CASE self.kind = "HasOne" -> HasOne_get_query(self)
      [] self.kind = "HasMany" -> HasMany_get_query(self)
      [] self.kind = "BelongsTo" -> BelongsTo_get_query(self)
      [] self.kind = "BelongsToMany" -> BelongsToMany_get_query(self)
      [] self.kind = "HasMorphOne" -> HasMorphOne_get_query(self)
      [] self.kind = "HasMorphMany" -> HasMorphMany_get_query(self)

\* BelongsToMany::attach, detach, sync: each body returns Ok(()) and issues no
\* statement, so the attached set after the call is the set before it.
attach(self, attached, ids) == attached

detach(self, attached, ids) == attached

sync(self, attached, ids) == attached

\* BelongsToMany::toggle: the body returns Ok(()) and issues no statement.
toggle(self, attached, ids) == attached

\* Relation::first: self.get_query().first()
Relation_first(self) == Query_first(get_query(self))

\* Relation::get: HasOne, BelongsTo and HasMorphOne wrap what first returns,
\* the others run get on the relation's query.
Relation_get(self) ==
    IF self.kind \in {"HasOne", "BelongsTo", "HasMorphOne"}
    THEN (IF Relation_first(self).some THEN <<Relation_first(self).v>> ELSE <<>>)
    ELSE get(get_query(self))

\* HashMap::insert on an attribute set (a function from column names to values).
insert(attributes, key, value) ==
    [k \in DOMAIN attributes \cup {key} |-> IF k = key THEN value ELSE attributes[k]]

\* HasOne::create: the attribute set handed to R::create. The insert of the
\* foreign key is commented out.
HasOne_create(self, attributes) == attributes

\* HasMany::create: the attribute set handed to R::create. The insert of the
\* foreign key is commented out.
HasMany_create(self, attributes) == attributes

\* HasMorphOne::create: the attribute set handed to R::create. The morph type
\* is inserted, the insert of the morph id is commented out.
HasMorphOne_create(self, attributes) ==
    insert(attributes, self.morph_type, VString(get_morph_type(self)))

\* HasMorphMany::create: as HasMorphOne::create.
HasMorphMany_create(self, attributes) ==
    insert(attributes, self.morph_type, VString(get_morph_type(self)))

\* CreatableRelation::create, dispatched on the relation object.
create(self, attributes) ==
    CASE self.kind = "HasOne" -> HasOne_create(self, attributes)
      [] self.kind = "HasMany" -> HasMany_create(self, attributes)
      [] self.kind = "HasMorphOne" -> HasMorphOne_create(self, attributes)
      [] self.kind = "HasMorphMany" -> HasMorphMany_create(self, attributes)

\* --------------------------------------------------------------------- state

VARIABLES
    q,        \* the Query under construction
    calls,    \* the names of the builder methods chained on q so far, in call order
    args,     \* for each call of calls, the argument the claims refer to, if any
    pg,       \* the paginate call in progress on q, or its outcome
    owner,    \* the entity instance a relation accessor is called on
    rel,      \* the relation object the accessor returned
    given,    \* the optional names the accessor was called with
    rq,       \* the Query returned by the relation's get_query
    pivot,    \* related ids attached to owner in the pivot table
    lastop,   \* the last attach / detach / sync call and the pivot before it, or
              \* the last create call and the attribute set it handed to R::create
    ret       \* the terminal call that consumed q. first / find_by_id: the builder
              \* it handed to get, the rows get returned and what the call returned;
              \* count / exists: the rows the table held and what the call returned

vars == <<q, calls, args, pg, owner, rel, given, rq, pivot, lastop, ret>>


\* User::query() of src/src/main.rs, with nothing else started.
Init ==
    /\ q = Query_new("User")
    /\ calls = <<>>
    /\ args = <<>>
    /\ pg = [pc |-> "idle"]
    /\ owner = None
    /\ rel = None
    /\ given = None
    /\ rq = None
    /\ pivot = {}
    /\ lastop = None
    /\ ret = None

\* One more builder call replaces q by the builder the method returns.
ChainArg(method, arg, next) ==
    /\ Len(calls) < MaxCalls
    /\ pg.pc = "idle"
    /\ ret = None
    /\ q' = next
    /\ calls' = Append(calls, method)
    /\ args' = Append(args, arg)
    /\ UNCHANGED <<pg, owner, rel, given, rq, pivot, lastop, ret>>

\* A builder call whose argument is not recorded.
Chain(method, next) == ChainArg(method, None, next)

Select == \E columns \in {<<"id", "name">>} : Chain("select", select(q, columns))

SelectRaw == \E sql \in {"COUNT(*) AS n"} : Chain("select_raw", select_raw(q, sql))

WhereClause ==
    \E value \in {"active", "O'Brien"} :
        ChainArg("where_clause", Some(VString(value)), where_clause(q, "status", value))

WhereOp ==
    \E value \in {VNumber(18), VBool(TRUE), VNull} :
        ChainArg("where_op", Some(value), where_op(q, "age", ">", value))

WhereIn ==
    \E values \in {<<VNumber(1), VNumber(2), VNumber(3)>>,
                   <<VString("a"), VBool(TRUE), VNull>>} :
        ChainArg("where_in", Some(values), where_in(q, "id", values))

WhereNotIn ==
    \E values \in {<<VNumber(1), VNumber(2), VNumber(3)>>} :
        ChainArg("where_not_in", Some(values), where_not_in(q, "id", values))

WhereNull == \E column \in {"deleted_at"} : Chain("where_null", where_null(q, column))

WhereNotNull == \E column \in {"email"} : Chain("where_not_null", where_not_null(q, column))

OrWhere ==
    \E value \in {VString("admin"), VNumber(1)} :
        ChainArg("or_where", Some(value), or_where(q, "role", "=", value))

JoinInner ==
    \E tbl \in {"posts"} : Chain("join", join(q, tbl, "users.id", "=", "posts.user_id"))

LeftJoin ==
    \E tbl \in {"profiles"} : Chain("left_join", left_join(q, tbl, "users.id", "=", "profiles.user_id"))

RightJoin ==
    \E tbl \in {"roles"} : Chain("right_join", right_join(q, tbl, "users.role_id", "=", "roles.id"))

OrderByCall ==
    \E direction \in {"asc", "sideways"} :
        ChainArg("order_by", Some(direction), order_by(q, "name", direction))

OrderByAsc == \E column \in {"name"} : Chain("order_by_asc", order_by_asc(q, column))

OrderByDesc == \E column \in {"name"} : Chain("order_by_desc", order_by_desc(q, column))

Latest == \E column \in {None, Some("id")} : ChainArg("latest", column, latest(q, column))

Oldest == \E column \in {None} : Chain("oldest", oldest(q, column))

Limit == \E n \in {5, 10} : ChainArg("limit", Some(n), limit(q, n))

Offset == \E n \in {20, 40} : ChainArg("offset", Some(n), offset(q, n))

Skip == \E n \in {10} : ChainArg("skip", Some(n), skip(q, n))

Take == \E n \in {1} : ChainArg("take", Some(n), take(q, n))

GroupBy == \E columns \in {<<"status", "role">>} : Chain("group_by", group_by(q, columns))

Having ==
    \E value \in {VNumber(1), VString("x")} :
        ChainArg("having", Some(value), having(q, "total", ">", value))

With == \E relations \in {<<"posts">>} : Chain("with", with(q, relations))

Next ==
    \/ Select \/ SelectRaw
    \/ WhereClause \/ WhereOp \/ WhereIn \/ WhereNotIn \/ WhereNull \/ WhereNotNull
    \/ OrWhere
    \/ JoinInner \/ LeftJoin \/ RightJoin
    \/ OrderByCall \/ OrderByAsc \/ OrderByDesc \/ Latest \/ Oldest
    \/ Limit \/ Offset \/ Skip \/ Take
    \/ GroupBy \/ Having \/ With

\* The query builder: every chain of at most MaxCalls builder calls.
Spec == Init /\ [][Next]_vars

\* ------------------------------------------------------------------ paginate

\* A record with the fields of a second record added to it or replaced in it.
Extend(rec, fields) ==
    [k \in DOMAIN rec \cup DOMAIN fields |-> IF k \in DOMAIN fields THEN fields[k] ELSE rec[k]]

\* Query::paginate up to its first await: the offset, and get called on a
\* clone of the builder with skip and take applied.
PaginateFetch ==
    /\ pg.pc = "idle"
    /\ \E page \in 0..MaxPage, per_page \in 1..MaxPerPage :
          LET off == (page - 1) * per_page
              fetch_query == take(skip(q, off), per_page)
          IN  pg' = [ pc |-> "fetching", page |-> page, per_page |-> per_page,
                      fetch_query |-> fetch_query, inflight |-> {"get"} ]
    /\ UNCHANGED <<q, calls, args, owner, rel, given, rq, pivot, lastop, ret>>

\* The first await of Query::paginate completes: get has returned the rows.
PaginateFetched ==
    /\ pg.pc = "fetching"
    /\ pg' = Extend(pg, [ pc |-> "fetched", results |-> get(pg.fetch_query),
                          inflight |-> pg.inflight \ {"get"} ])
    /\ UNCHANGED <<q, calls, args, owner, rel, given, rq, pivot, lastop, ret>>

\* PaginateCount started while the page fetch may still be in flight.
PaginateCountUnawaited ==
    /\ pg.pc \in {"fetching", "fetched"}
    /\ pg' = Extend(pg, [ pc |-> "counting", count_query |-> q,
                          inflight |-> pg.inflight \cup {"count"} ])
    /\ UNCHANGED <<q, calls, args, owner, rel, given, rq, pivot, lastop, ret>>

\* Query::paginate after its first await: count called on the builder itself.
PaginateCount ==
    /\ pg.pc = "fetched"
    /\ pg' = Extend(pg, [ pc |-> "counting", count_query |-> q,
                          inflight |-> pg.inflight \cup {"count"} ])
    /\ UNCHANGED <<q, calls, args, owner, rel, given, rq, pivot, lastop, ret>>

\* The second await of Query::paginate completes: count has returned the
\* total, and the Pagination value is built.
PaginateCounted ==
    /\ pg.pc = "counting"
    /\ LET total == count(pg.count_query)
       IN  pg' = Extend(pg, [ pc |-> "done", inflight |-> pg.inflight \ {"count"},
                              result |-> Pagination(pg.results, pg.page, pg.per_page,
                                                    total) ])
    /\ UNCHANGED <<q, calls, args, owner, rel, given, rq, pivot, lastop, ret>>

NextPaginate ==
    \/ WhereClause \/ OrderByDesc \/ Limit \/ Offset
    \/ PaginateFetch \/ PaginateFetched \/ PaginateCount \/ PaginateCounted

\* paginate called on a builder after a few builder calls.
SpecPaginate == Init /\ [][NextPaginate]_vars

\* ------------------------------------------------------- first, find_by_id

\* A query on User (primary key id) or on Glass (primary key uuid).
InitFirst ==
    /\ q \in {Query_new("User"), Query_new("Glass")}
    /\ calls = <<>>
    /\ args = <<>>
    /\ pg = [pc |-> "idle"]
    /\ owner = None
    /\ rel = None
    /\ given = None
    /\ rq = None
    /\ pivot = {}
    /\ lastop = None
    /\ ret = None

\* Query::first on the builder.
First ==
    /\ ret = None
    /\ LET query == first_query(q)
       IN  ret' = Some([op |-> "first", query |-> query, results |-> get(query),
                        result |-> Query_first(q)])
    /\ UNCHANGED <<q, calls, args, pg, owner, rel, given, rq, pivot, lastop>>

\* Query::find_by_id on the builder.
FindById ==
    /\ ret = None
    /\ \E id \in 1..MaxId :
          LET query == first_query(find_by_id_query(q, id))
          IN  ret' = Some([op |-> "find_by_id", id |-> id, query |-> query,
                           results |-> get(query), result |-> find_by_id(q, id)])
    /\ UNCHANGED <<q, calls, args, pg, owner, rel, given, rq, pivot, lastop>>

NextFirst ==
    \/ Select \/ WhereOp \/ OrWhere \/ JoinInner \/ OrderByDesc \/ Limit \/ Take \/ Offset
    \/ GroupBy \/ Having \/ With
    \/ First \/ FindById

\* first or find_by_id called on a builder after a few builder calls.
SpecFirst == InitFirst /\ [][NextFirst]_vars

\* ------------------------------------------------------------- count, exists

\* Query::count on the builder, while the queried table holds table_rows rows.
Count ==
    /\ ret = None
    /\ \E table_rows \in 0..MaxRows :
          ret' = Some([op |-> "count", table_rows |-> table_rows, result |-> count(q)])
    /\ UNCHANGED <<q, calls, args, pg, owner, rel, given, rq, pivot, lastop>>

\* Query::exists on the builder, while the queried table holds table_rows rows.
Exists ==
    /\ ret = None
    /\ \E table_rows \in 0..MaxRows :
          ret' = Some([op |-> "exists", table_rows |-> table_rows, result |-> exists(q)])
    /\ UNCHANGED <<q, calls, args, pg, owner, rel, given, rq, pivot, lastop>>

NextCount ==
    \/ Select \/ SelectRaw \/ WhereClause \/ JoinInner \/ Limit \/ Offset \/ Skip \/ Take
    \/ Count \/ Exists

\* count or exists called on a builder after a few builder calls.
SpecCount == InitFirst /\ [][NextCount]_vars

\* ----------------------------------------------------------- relation objects

\* What get_key_value may return: nothing (unpersisted), an integer, a
\* string, or a number that does not fit an i64.
KeyValues ==
    { None, Some(VNumber(1)), Some(VNumber(7)), Some(VString("u-7")),
      Some(VNumberWide("18446744073709551615")) }

\* The id lists passed to attach / detach / sync: ascending, without repeats.
IdLists ==
    { ids \in UNION { [1..n -> 1..MaxId] : n \in 0..MaxId } :
        \A i \in 1..(Len(ids) - 1) : ids[i] < ids[i + 1] }

\* The ids of a list, as a set.
Range(seq) == { seq[i] : i \in 1..Len(seq) }

\* An entity instance exists, with some rows of the pivot table attached to it.
InitRelations ==
    /\ q = Query_new("User")
    /\ calls = <<>>
    /\ args = <<>>
    /\ pg = [pc |-> "idle"]
    /\ owner \in { Some(Instance(T, key, fk_value)) :
                      T \in Types, key \in KeyValues, fk_value \in {None, Some(VNumber(2))} }
    /\ rel = None
    /\ given = None
    /\ rq = None
    /\ pivot \in SUBSET (1..MaxId)
    /\ lastop = None
    /\ ret = None

\* A relation accessor of Eloquent builds the relation object on a clone of
\* the instance.
\* Accessor moving the instance into the relation instead of cloning it.
AccessorMovingInstance(relation, names) ==
    /\ owner.some
    /\ rel = None
    /\ rel' = Some(relation)
    /\ given' = Some(names)
    /\ owner' = None
    /\ UNCHANGED <<q, calls, args, pg, rq, pivot, lastop, ret>>

Accessor(relation, names) ==
    /\ owner.some
    /\ rel = None
    /\ rel' = Some(relation)
    /\ given' = Some(names)
    /\ UNCHANGED <<q, calls, args, pg, owner, rq, pivot, lastop, ret>>

HasOneAccessor ==
    \E R \in Types, foreign_key \in {None, Some("owner_id")}, local_key \in {None, Some("code")} :
        Accessor(HasOne_new(owner.v, R, foreign_key, local_key),
                 [foreign_key |-> foreign_key, local_key |-> local_key])

HasManyAccessor ==
    \E R \in Types, foreign_key \in {None, Some("owner_id")}, local_key \in {None} :
        Accessor(HasMany_new(owner.v, R, foreign_key, local_key),
                 [foreign_key |-> foreign_key, local_key |-> local_key])

BelongsToAccessor ==
    \E R \in Types, foreign_key \in {None, Some("owner_id")}, owner_key \in {None} :
        Accessor(BelongsTo_new(owner.v, R, foreign_key, owner_key),
                 [foreign_key |-> foreign_key, owner_key |-> owner_key])

BelongsToManyAccessor ==
    \E R \in Types, tbl \in {None, Some("memberships")},
       foreign_pivot_key \in {None}, related_pivot_key \in {None, Some("member_id")},
       parent_key \in {None}, related_key \in {None} :
        Accessor(BelongsToMany_new(owner.v, R, tbl, foreign_pivot_key, related_pivot_key,
                                   parent_key, related_key),
                 [table |-> tbl, foreign_pivot_key |-> foreign_pivot_key,
                  related_pivot_key |-> related_pivot_key, parent_key |-> parent_key,
                  related_key |-> related_key])

MorphOneAccessor ==
    \E R \in Types, type_column \in {None}, id_column \in {None, Some("target_id")},
       local_key \in {None} :
        Accessor(HasMorphOne_new(owner.v, R, "imageable", type_column, id_column, local_key),
                 [type_column |-> type_column, id_column |-> id_column,
                  local_key |-> local_key])

MorphManyAccessor ==
    \E R \in Types, type_column \in {None, Some("target_type")}, id_column \in {None},
       local_key \in {None} :
        Accessor(HasMorphMany_new(owner.v, R, "commentable", type_column, id_column,
                                  local_key),
                 [type_column |-> type_column, id_column |-> id_column,
                  local_key |-> local_key])

\* Relation::get_query on the relation object.
GetQuery ==
    /\ rel.some
    /\ rq = None
    /\ rq' = Some(get_query(rel.v))
    /\ UNCHANGED <<q, calls, args, pg, owner, rel, given, pivot, lastop, ret>>

\* AttachableRelation::attach / detach / sync on a BelongsToMany.
Attachable(op, attached, ids) ==
    /\ rel.some
    /\ rel.v.kind = "BelongsToMany"
    /\ lastop = None
    /\ pivot' = attached
    /\ lastop' = Some([op |-> op, ids |-> ids, before |-> pivot])
    /\ UNCHANGED <<q, calls, args, pg, owner, rel, given, rq, ret>>

Attach == \E ids \in IdLists : Attachable("attach", attach(rel.v, pivot, ids), ids)

Detach == \E ids \in IdLists : Attachable("detach", detach(rel.v, pivot, ids), ids)

Sync == \E ids \in IdLists : Attachable("sync", sync(rel.v, pivot, ids), ids)

\* The attribute sets callers pass to create.
AttributeSets ==
    { [k \in {"title"} |-> VString("hello")],
      [k \in {"title", "commentable_type"} |-> VString("hello")] }

\* CreatableRelation::create on a HasOne, HasMany, HasMorphOne or HasMorphMany,
\* up to its call of R::create.
Create ==
    /\ rel.some
    /\ rel.v.kind \in {"HasOne", "HasMany", "HasMorphOne", "HasMorphMany"}
    /\ lastop = None
    /\ \E attributes \in AttributeSets :
          lastop' = Some([op |-> "create", attributes |-> attributes,
                          passed |-> create(rel.v, attributes)])
    /\ UNCHANGED <<q, calls, args, pg, owner, rel, given, rq, pivot, ret>>

\* BelongsToMany::toggle.
Toggle == \E ids \in IdLists : Attachable("toggle", toggle(rel.v, pivot, ids), ids)

\* Relation::get / Relation::first on the relation object.
RelationGet ==
    /\ rel.some
    /\ lastop = None
    /\ \/ lastop' = Some([op |-> "get", result |-> Relation_get(rel.v)])
       \/ lastop' = Some([op |-> "first", result |-> Relation_first(rel.v)])
    /\ UNCHANGED <<q, calls, args, pg, owner, rel, given, rq, pivot, ret>>

\* CreatableRelation::save: the body returns Ok(()).
Save ==
    /\ rel.some
    /\ rel.v.kind \in {"HasOne", "HasMany", "HasMorphOne", "HasMorphMany"}
    /\ lastop = None
    /\ lastop' = Some([op |-> "save"])
    /\ UNCHANGED <<q, calls, args, pg, owner, rel, given, rq, pivot, ret>>

NextRelations ==
    \/ HasOneAccessor \/ HasManyAccessor \/ BelongsToAccessor
    \/ BelongsToManyAccessor \/ MorphOneAccessor \/ MorphManyAccessor
    \/ GetQuery
    \/ Attach \/ Detach \/ Sync \/ Toggle
    \/ Create \/ Save
    \/ RelationGet

\* The relation objects of one entity instance.
SpecRelations == InitRelations /\ [][NextRelations]_vars

\* ==================================================================== claims

\* The text of each fragment kind, in to_sql's order.
PartKinds(parts) == [i \in 1..Len(parts) |-> parts[i].kind]

\* The position of a clause kind in SELECT, JOIN, WHERE, GROUP BY, HAVING,
\* ORDER BY, LIMIT, OFFSET.
ClauseRank(kind) ==
    CASE kind = "SELECT" -> 1
      [] kind = "JOIN" -> 2
      [] kind \in {"WHERE", "WHERE_BOOLEAN", "WHERE_CONDITION"} -> 3
      [] kind = "GROUP BY" -> 4
      [] kind \in {"HAVING", "HAVING_BOOLEAN", "HAVING_CONDITION"} -> 5
      [] kind \in {"ORDER BY", "ORDER_CLAUSES"} -> 6
      [] kind = "LIMIT" -> 7
      [] kind = "OFFSET" -> 8

\* C1: whatever builder calls were chained and in whatever order, to_sql
\* starts with SELECT ... FROM and places the clauses it renders in the order
\* JOIN, WHERE, GROUP BY, HAVING, ORDER BY, LIMIT, OFFSET.
C1_ClauseOrder ==
    LET parts == to_sql_parts(q)
    IN  /\ parts[1].kind = "SELECT"
        /\ \A i, j \in 1..Len(parts) :
              i < j => ClauseRank(parts[i].kind) <= ClauseRank(parts[j].kind)
        /\ \A i, j \in 1..Len(parts) :
              (i < j /\ parts[i].kind = parts[j].kind) =>
                  parts[i].kind \in {"JOIN", "WHERE_BOOLEAN", "WHERE_CONDITION",
                                     "HAVING_BOOLEAN", "HAVING_CONDITION"}

\* C1 witness: limit, then where_clause, then join, rendered as JOIN, WHERE,
\* LIMIT.
C1_Witness ==
    /\ calls = <<"limit", "where_clause", "join">>
    /\ PartKinds(to_sql_parts(q)) = <<"SELECT", "JOIN", "WHERE", "WHERE_CONDITION", "LIMIT">>
    /\ to_sql(q) \in
          { "SELECT * FROM users INNER JOIN posts ON users.id = posts.user_id"
                \o " WHERE status = 'active' LIMIT " \o n : n \in {"5", "10"} }

\* The builder methods that push a where condition.
IsWhereMethod(m) ==
    m \in {"where_clause", "where_op", "where_in", "where_not_in", "where_null",
           "where_not_null", "or_where"}

IsWherePart(p) == p.kind \in {"WHERE_BOOLEAN", "WHERE_CONDITION"}

\* C10: in to_sql, the first where condition is rendered without a
\* connective and every later one is preceded by its own: OR when it was
\* added by or_where, AND when it was added by any other where method.
C10_OwnConnective ==
    LET wcalls == SelectSeq(calls, IsWhereMethod)
        wparts == SelectSeq(to_sql_parts(q), IsWherePart)
        n == Len(wcalls)
    IN  /\ Len(q.where_conditions) = n
        /\ Len(wparts) = (IF n = 0 THEN 0 ELSE 2 * n - 1)
        /\ n > 0 => wparts[1] = Part("WHERE_CONDITION",
                                     WhereConditionText(q.where_conditions[1]))
        /\ \A i \in 2..n :
              /\ wparts[2 * i - 2] =
                    Part("WHERE_BOOLEAN",
                         IF wcalls[i] = "or_where" THEN " OR " ELSE " AND ")
              /\ wparts[2 * i - 1] =
                    Part("WHERE_CONDITION", WhereConditionText(q.where_conditions[i]))

\* C10 witness: where_clause then or_where renders `cond1 OR cond2`.
C10_Witness ==
    /\ calls = <<"where_clause", "or_where">>
    /\ to_sql(q) = "SELECT * FROM users WHERE status = 'active' OR role = 'admin'"

\* What the specification says of a Pagination p returned for page, per_page.
PaginationAsSpecified(p, page, per_page) ==
    LET off == (page - 1) * per_page
        left == IF p.total - off > 0 THEN p.total - off ELSE 0
    IN  /\ p.current_page = page
        /\ p.per_page = per_page
        /\ p.last_page * per_page >= p.total
        /\ (p.last_page - 1) * per_page < p.total
        /\ p.from = off + 1
        /\ p.to = off + (IF per_page < left THEN per_page ELSE left)

\* C2: for page >= 1, per_page >= 1 and total >= 0, paginate returns
\* current_page = page, per_page, last_page = ceil(total / per_page),
\* from = offset + 1 and to = offset + min(per_page, max(total - offset, 0)):
\* for the total count() returns, and for every total the arithmetic may be
\* given; page 2 of 10 gives last_page 3, from 11, to 20 of 25 rows and to 15
\* of 15 rows.
C2_PaginationFormula ==
    /\ (pg.pc = "done" /\ pg.page >= 1) =>
          /\ pg.result.total = count(pg.count_query)
          /\ PaginationAsSpecified(pg.result, pg.page, pg.per_page)
    /\ ("results" \in DOMAIN pg /\ pg.page >= 1) =>
          \A total \in 0..MaxTotal :
              LET p == Pagination(pg.results, pg.page, pg.per_page, total)
              IN  /\ p.total = total
                  /\ PaginationAsSpecified(p, pg.page, pg.per_page)
    /\ ("results" \in DOMAIN pg /\ pg.page = 2 /\ pg.per_page = 10) =>
          LET p25 == Pagination(pg.results, 2, 10, 25)
              p15 == Pagination(pg.results, 2, 10, 15)
          IN  /\ p25.last_page = 3 /\ p25.from = 11 /\ p25.to = 20
              /\ p15.to = 15

\* C2 witness: paginate(2, 10) has returned.
C2_Witness ==
    /\ pg.pc = "done"
    /\ pg.page = 2
    /\ pg.per_page = 10
    /\ pg.result.from = 11

\* C3 as stated: when offset >= total, `to` neither exceeds total nor is
\* negative.
C3_ToWithinTotal ==
    (pg.pc = "done" /\ (pg.page - 1) * pg.per_page >= pg.result.total) =>
        /\ pg.result.to <= pg.result.total
        /\ pg.result.to >= 0

\* C3 amended: for per_page >= 1, when offset >= total >= 0, `to` equals
\* offset, one less than `from`: it is not negative, and it exceeds total
\* whenever offset > total.
C3_ToIsOffsetPastEnd ==
    /\ (pg.pc = "done" /\ (pg.page - 1) * pg.per_page >= pg.result.total) =>
          /\ pg.result.to = (pg.page - 1) * pg.per_page
          /\ pg.result.to = pg.result.from - 1
          /\ pg.result.to >= 0
    /\ "results" \in DOMAIN pg =>
          \A total \in 0..MaxTotal :
              LET off == (pg.page - 1) * pg.per_page
                  p == Pagination(pg.results, pg.page, pg.per_page, total)
              IN  off >= total =>
                      /\ p.to = off
                      /\ p.to = p.from - 1
                      /\ p.to >= 0
                      /\ (off > total => p.to > total)

\* C3 witness: a page past the end, whose `to` exceeds total.
C3_Witness ==
    /\ pg.pc = "done"
    /\ (pg.page - 1) * pg.per_page > pg.result.total
    /\ pg.result.to > pg.result.total

\* The text of a primary-key or foreign-key value, as a constraint carries it.
KeyText(v) == IF v.kind = "String" THEN v.s ELSE NumberToString(v)

\* An equality condition on a column, as where_clause builds it.
EqualityCondition(column, text) == WhereCondition(column, "=", VString(text), "AND")

\* The query holds the condition among its where conditions.
HasCondition(query, cond) ==
    \E i \in 1..Len(query.where_conditions) : query.where_conditions[i] = cond

\* The query holds a where condition on the column.
HasConditionOn(query, column) ==
    \E i \in 1..Len(query.where_conditions) : query.where_conditions[i].column = column

\* C4 as stated: sync(ids) detaches the attached ids that are not in ids,
\* attaches the ids that were not attached, and leaves exactly ids attached.
C4_SyncLeavesIds ==
    (lastop.some /\ lastop.v.op = "sync") =>
        LET before == lastop.v.before
            ids == Range(lastop.v.ids)
        IN  /\ before \ pivot = before \ ids
            /\ pivot \ before = ids \ before
            /\ pivot = ids

\* C5 as stated: for an owner with a primary-key value, get_query of HasOne
\* and of HasMany is a query on the related type holding the condition
\* foreign_key = <owner's primary-key value>.
C5_HasOneHasManyConstrained ==
    (rq.some /\ rel.v.kind \in {"HasOne", "HasMany"}
        /\ get_key_value(rel.v.parent).some) =>
        /\ rq.v.T = rel.v.R
        /\ HasCondition(rq.v, EqualityCondition(rel.v.foreign_key,
                                                KeyText(get_key_value(rel.v.parent).v)))

\* C6: for an owner without a primary-key value, get_query of HasMany and of
\* HasOne returns a query with no where condition, rendered without a WHERE
\* clause.
C6_NoKeyUnconstrained ==
    (rq.some /\ rel.v.kind \in {"HasOne", "HasMany"}
        /\ ~get_key_value(rel.v.parent).some) =>
        /\ rq.v.T = rel.v.R
        /\ rq.v.where_conditions = <<>>
        /\ ~HasConditionOn(rq.v, rel.v.foreign_key)
        /\ to_sql(rq.v) = "SELECT * FROM " \o table_name(rel.v.R)

\* C6 witness: has_many of an unpersisted User to Post, rendered.
C6_Witness ==
    /\ rq.some
    /\ rel.v.kind = "HasMany"
    /\ rel.v.T = "User"
    /\ ~get_key_value(rel.v.parent).some
    /\ to_sql(rq.v) = "SELECT * FROM posts"

\* C7 as stated: get_query of MorphOne and of MorphMany holds
\* morph_type = <owner's table name> for every owner, and
\* morph_id = <owner's primary-key value> exactly when the owner has one.
C7_MorphConstrained ==
    (rq.some /\ rel.v.kind \in {"HasMorphOne", "HasMorphMany"}) =>
        LET key == get_key_value(rel.v.parent)
        IN  /\ HasCondition(rq.v, EqualityCondition(rel.v.morph_type, table_name(rel.v.T)))
            /\ HasConditionOn(rq.v, rel.v.morph_id) <=> key.some
            /\ key.some =>
                  HasCondition(rq.v, EqualityCondition(rel.v.morph_id, KeyText(key.v)))

\* C8 as stated: get_query of BelongsTo is a query on the owner type holding
\* owner_key = <the foreign-key value of the child instance>.
C8_BelongsToConstrained ==
    (rq.some /\ rel.v.kind = "BelongsTo" /\ rel.v.child.fk_value.some) =>
        /\ rq.v.T = rel.v.R
        /\ HasCondition(rq.v, EqualityCondition(rel.v.owner_key,
                                                KeyText(rel.v.child.fk_value.v)))

\* What C9 says get_query of a BelongsToMany returns for an owner key value.
PivotConstrained(query, self, key) ==
    /\ query.T = self.R
    /\ query.joins =
          <<Join(self.table, self.table \o "." \o self.related_pivot_key, "=",
                 table_name(self.R) \o "." \o self.related_key, "INNER")>>
    /\ query.where_conditions =
          <<EqualityCondition(self.table \o "." \o self.foreign_pivot_key, KeyText(key))>>

\* C9 as stated: for an owner with a primary-key value, get_query of
\* BelongsToMany has exactly one INNER join of the pivot table on
\* pivot.related_pivot_key = related.related_key and exactly one where
\* condition pivot.foreign_pivot_key = <owner's primary-key value>.
C9_PivotConstrainedForAnyKey ==
    (rq.some /\ rel.v.kind = "BelongsToMany" /\ get_key_value(rel.v.parent).some) =>
        PivotConstrained(rq.v, rel.v, get_key_value(rel.v.parent).v)

\* C9 amended: the same, for an owner whose primary-key value is an integer
\* that fits an i64 or a string.
C9_PivotConstrainedForSimpleKey ==
    (rq.some /\ rel.v.kind = "BelongsToMany" /\ get_key_value(rel.v.parent).some
        /\ (as_i64(get_key_value(rel.v.parent).v).some
               \/ as_str(get_key_value(rel.v.parent).v).some)) =>
        PivotConstrained(rq.v, rel.v, get_key_value(rel.v.parent).v)

\* C9 witness: belongs_to_many of User 1 to Post with the default names.
C9_Witness ==
    /\ rq.some
    /\ rel.v.kind = "BelongsToMany"
    /\ get_key_value(rel.v.parent) = Some(VNumber(1))
    /\ to_sql(rq.v) = "SELECT * FROM posts INNER JOIN posts_users ON "
                         \o "posts_users.post_id = posts.id WHERE posts_users.user_id = '1'"

\* The largest element of a non-empty set of integers.
MaxOf(S) == CHOOSE x \in S : \A y \in S : y <= x

\* The positions in calls of the methods of a set.
CallsOf(methods) == { i \in 1..Len(calls) : calls[i] \in methods }

IsLimitPart(p) == p.kind = "LIMIT"

IsOffsetPart(p) == p.kind = "OFFSET"

\* C11: limit / take and offset / skip overwrite: after any chain of builder
\* calls to_sql holds one LIMIT exactly when limit or take was called, showing
\* the argument of the last such call, and one OFFSET exactly when offset or
\* skip was called, showing the argument of the last such call.
C11_LimitOffsetOverwrite ==
    LET parts == to_sql_parts(q)
        limits == SelectSeq(parts, IsLimitPart)
        offsets == SelectSeq(parts, IsOffsetPart)
        lcalls == CallsOf({"limit", "take"})
        ocalls == CallsOf({"offset", "skip"})
    IN  /\ Len(limits) = (IF lcalls = {} THEN 0 ELSE 1)
        /\ Len(offsets) = (IF ocalls = {} THEN 0 ELSE 1)
        /\ lcalls # {} => limits[1].text = " LIMIT " \o ToString(args[MaxOf(lcalls)].v)
        /\ ocalls # {} => offsets[1].text = " OFFSET " \o ToString(args[MaxOf(ocalls)].v)

\* C11 witness: limit(5).limit(10) renders LIMIT 10.
C11_Witness ==
    /\ calls = <<"limit", "limit">>
    /\ args = <<Some(5), Some(10)>>
    /\ to_sql(q) = "SELECT * FROM users LIMIT 10"

\* The where calls of the chain, in call order, each with its recorded argument.
WhereCalls ==
    SelectSeq([i \in 1..Len(calls) |-> [method |-> calls[i], arg |-> args[i]]],
              LAMBDA c : IsWhereMethod(c.method))

IsWhereConditionPart(p) == p.kind = "WHERE_CONDITION"

\* The texts t1, ..., tn written as `t1, t2, ..., tn`, built from the left.
RECURSIVE CommaSeparated(_, _)
CommaSeparated(texts, n) ==
    IF n = 0 THEN ""
    ELSE IF n = 1 THEN texts[1]
    ELSE CommaSeparated(texts, n - 1) \o ", " \o texts[n]

\* C12: where_in(col, [v1, ..., vn]) is rendered by to_sql as
\* `col IN (v1, ..., vn)`, the elements in the order given and separated by
\* comma and space, and where_not_in as the same list after `NOT IN`.
C12_InListRendering ==
    LET wparts == SelectSeq(to_sql_parts(q), IsWhereConditionPart)
    IN  /\ Len(wparts) = Len(WhereCalls)
        /\ \A k \in 1..Len(WhereCalls) :
              WhereCalls[k].method \in {"where_in", "where_not_in"} =>
                  LET values == WhereCalls[k].arg.v
                      texts == [i \in 1..Len(values) |-> RenderArrayElement(values[i])]
                      keyword == IF WhereCalls[k].method = "where_in" THEN "IN" ELSE "NOT IN"
                  IN  wparts[k].text =
                          "id " \o keyword \o " (" \o CommaSeparated(texts, Len(texts)) \o ")"

\* C12 witness: where_in("id", [1, 2, 3]) then where_not_in("id", [1, 2, 3]).
C12_Witness ==
    /\ calls = <<"where_in", "where_not_in">>
    /\ args[1] = Some(<<VNumber(1), VNumber(2), VNumber(3)>>)
    /\ to_sql(q) = "SELECT * FROM users WHERE id IN (1, 2, 3) AND id NOT IN (1, 2, 3)"

\* The literal the specification gives for a scalar value: a string between
\* single quotes as it is, a number or a boolean bare, null as NULL.
ScalarLiteral(v) ==
    CASE v.kind = "String" -> "'" \o v.s \o "'"
      [] v.kind = "Number" -> (IF v.is_i64 THEN ToString(v.n) ELSE v.text)
      [] v.kind = "Bool" -> (IF v.b THEN "true" ELSE "false")
      [] v.kind = "Null" -> "NULL"

\* The column and operator each where method of the chain is called with.
ColumnAndOperator(method) ==
    CASE method = "where_clause" -> "status ="
      [] method = "where_op" -> "age >"
      [] method = "or_where" -> "role ="

\* C13: in the WHERE clause of to_sql, a condition added by where_clause,
\* where_op or or_where is rendered `column operator literal`: a string value
\* between single quotes with its characters unchanged, a number or a boolean
\* bare, null as NULL.
C13_ScalarRendering ==
    LET wparts == SelectSeq(to_sql_parts(q), IsWhereConditionPart)
    IN  /\ Len(wparts) = Len(WhereCalls)
        /\ \A k \in 1..Len(WhereCalls) :
              WhereCalls[k].method \in {"where_clause", "where_op", "or_where"} =>
                  wparts[k].text = ColumnAndOperator(WhereCalls[k].method) \o " "
                                       \o ScalarLiteral(WhereCalls[k].arg.v)
        /\ (calls = <<"where_clause">> /\ args = <<Some(VString("active"))>>) =>
              to_sql(q) = "SELECT * FROM users WHERE status = 'active'"

\* C13 witness: where_clause("status", "active") on an empty builder, then a
\* boolean, then a string holding a quote.
C13_Witness ==
    /\ calls = <<"where_clause", "where_op", "where_clause">>
    /\ args[2] = Some(VBool(TRUE))
    /\ to_sql(q) = "SELECT * FROM users WHERE status = 'active' AND age > true"
                       \o " AND status = 'O'Brien'"

\* C14 as stated: a condition added by where_null(col) is rendered
\* `col IS NULL` and one added by where_not_null(col) `col IS NOT NULL`, with
\* nothing after the operator.
C14_NullWithoutOperand ==
    LET wparts == SelectSeq(to_sql_parts(q), IsWhereConditionPart)
    IN  \A k \in 1..Len(WhereCalls) :
            /\ WhereCalls[k].method = "where_null" => wparts[k].text = "deleted_at IS NULL"
            /\ WhereCalls[k].method = "where_not_null" => wparts[k].text = "email IS NOT NULL"

\* The columns a relation's create is to stamp.
RelationKeyColumns(self) ==
    IF self.kind \in {"HasOne", "HasMany"} THEN {self.foreign_key}
    ELSE {self.morph_type, self.morph_id}

\* C16 as stated: create(attributes) hands to the related type's create the
\* caller's attributes plus the relation's keys: foreign_key = <owner's
\* primary-key value> for HasOne and HasMany, morph_type = <owner's table
\* name> and morph_id = <owner's primary-key value> for MorphOne and MorphMany.
C16_CreateStampsKeys ==
    (lastop.some /\ lastop.v.op = "create" /\ get_key_value(rel.v.parent).some) =>
        LET self == rel.v
            attributes == lastop.v.attributes
            passed == lastop.v.passed
            key == get_key_value(self.parent).v
        IN  /\ \A k \in DOMAIN attributes \ RelationKeyColumns(self) :
                  k \in DOMAIN passed /\ passed[k] = attributes[k]
            /\ RelationKeyColumns(self) \subseteq DOMAIN passed
            /\ self.kind \in {"HasOne", "HasMany"} => passed[self.foreign_key] = key
            /\ self.kind \in {"HasMorphOne", "HasMorphMany"} =>
                  /\ passed[self.morph_type] = VString(table_name(self.T))
                  /\ passed[self.morph_id] = key

\* A table name with one trailing `s` removed if it ends in `s`, whole otherwise.
WithoutOneTrailingS(chars) ==
    IF chars # <<>> /\ chars[Len(chars)] = "s" THEN SubSeq(chars, 1, Len(chars) - 1)
    ELSE chars

\* The default foreign key name C17 gives for an owning type.
ForeignKeyAsSpecified(X) == JoinStr(WithoutOneTrailingS(table_name_chars(X)), "") \o "_id"

\* C17 as stated: a relation built without a foreign key name uses the owning
\* type's table name, less one trailing `s` if it ends in `s`, followed by
\* `_id`: for HasOne and HasMany the parent type's table, for BelongsTo the
\* related (owner) type's, for BelongsToMany the parent's for the foreign
\* pivot key and the related type's for the related pivot key.
C17_DefaultForeignKey ==
    rel.some =>
        LET self == rel.v
        IN  /\ (self.kind \in {"HasOne", "HasMany"} /\ ~given.v.foreign_key.some) =>
                  self.foreign_key = ForeignKeyAsSpecified(self.T)
            /\ (self.kind = "BelongsTo" /\ ~given.v.foreign_key.some) =>
                  self.foreign_key = ForeignKeyAsSpecified(self.R)
            /\ (self.kind = "BelongsToMany" /\ ~given.v.foreign_pivot_key.some) =>
                  self.foreign_pivot_key = ForeignKeyAsSpecified(self.T)
            /\ (self.kind = "BelongsToMany" /\ ~given.v.related_pivot_key.some) =>
                  self.related_pivot_key = ForeignKeyAsSpecified(self.R)

\* C18 as stated: a relation built without a local / owner key name uses the
\* related type's configured primary key, for HasOne, HasMany, BelongsTo,
\* MorphOne and MorphMany alike.
C18_LocalKeyIsRelatedPrimaryKey ==
    rel.some =>
        LET self == rel.v
        IN  /\ (self.kind \in {"HasOne", "HasMany", "HasMorphOne", "HasMorphMany"}
                    /\ ~given.v.local_key.some) =>
                  self.local_key = primary_key(self.R)
            /\ (self.kind = "BelongsTo" /\ ~given.v.owner_key.some) =>
                  self.owner_key = primary_key(self.R)

\* C18 amended: built without a local / owner key name, HasOne, HasMany,
\* MorphOne and MorphMany use the configured primary key of the owning
\* (parent) type as local key, and BelongsTo uses the configured primary key
\* of the related type as owner key; a name that is supplied is used as it is.
C18_LocalKeyDefault ==
    rel.some =>
        LET self == rel.v
        IN  /\ self.kind \in {"HasOne", "HasMany", "HasMorphOne", "HasMorphMany"} =>
                  self.local_key = (IF given.v.local_key.some THEN given.v.local_key.v
                                    ELSE primary_key(owner.v.T))
            /\ self.kind = "BelongsTo" =>
                  self.owner_key = (IF given.v.owner_key.some THEN given.v.owner_key.v
                                    ELSE primary_key(self.R))

\* C18 witness: has_many from a User (primary key id) to Glass (primary key
\* uuid) without a local key name has local key id.
C18_Witness ==
    /\ rel.some
    /\ rel.v.kind = "HasMany"
    /\ owner.v.T = "User"
    /\ rel.v.R = "Glass"
    /\ given.v.local_key = None
    /\ rel.v.local_key = "id"
    /\ primary_key(rel.v.R) = "uuid"

\* The two table names of a pair of types in lexicographic order, joined with `_`.
PivotTableAsSpecified(pair) ==
    CASE pair = {"User"} -> "users_users"
      [] pair = {"Post"} -> "posts_posts"
      [] pair = {"Glass"} -> "glass_glass"
      [] pair = {"User", "Post"} -> "posts_users"
      [] pair = {"User", "Glass"} -> "glass_users"
      [] pair = {"Post", "Glass"} -> "glass_posts"

\* C19: a BelongsToMany built without a pivot table name uses the two table
\* names in lexicographic order joined with `_`, and the relation built the
\* other way round, from the related type to the owning type, uses the same
\* name.
C19_DefaultPivotTable ==
    (rel.some /\ rel.v.kind = "BelongsToMany" /\ ~given.v.table.some) =>
        LET self == rel.v
            reverse == BelongsToMany_new(Instance(self.R, None, None), self.T,
                                         None, None, None, None, None)
        IN  /\ self.table = PivotTableAsSpecified({self.T, self.R})
            /\ reverse.table = self.table

\* C19 witness: belongs_to_many from User to Post without a table name uses
\* posts_users.
C19_Witness ==
    /\ rel.some
    /\ rel.v.kind = "BelongsToMany"
    /\ rel.v.T = "User"
    /\ rel.v.R = "Post"
    /\ given.v.table = None
    /\ rel.v.table = "posts_users"

\* The row sequences get may hand back to first.
RowSeqs == { <<>>, <<"row1">>, <<"row1", "row2">>, <<"row2", "row1">> }

\* C20: first hands to get the builder with the limit forced to 1, whatever
\* limit it held, and returns the first row get returned, or none when there
\* is no row; find_by_id appends the condition primary_key = id with AND to the
\* conditions of the builder, keeps every other clause, and then does as
\* first.
C20_FirstAndFindById ==
    /\ ret.some =>
          LET searched ==
                  IF ret.v.op = "first" THEN q
                  ELSE [q EXCEPT !.where_conditions =
                           Append(@, [column |-> (IF q.T = "Glass" THEN "uuid" ELSE "id"),
                                      operator |-> "=",
                                      value |-> VString(ToString(ret.v.id)),
                                      boolean |-> "AND"])]
          IN  /\ ret.v.query = [searched EXCEPT !.limit_value = Some(1)]
              /\ SelectSeq(to_sql_parts(ret.v.query), IsLimitPart) = <<Part("LIMIT", " LIMIT 1")>>
              /\ ret.v.result =
                    (IF ret.v.results = <<>> THEN None ELSE Some(Head(ret.v.results)))
    /\ \A rows \in RowSeqs :
          into_iter_next(rows) = (IF rows = <<>> THEN None ELSE Some(Head(rows)))

\* C20 witness: limit(10), then find_by_id(2), on a User query.
C20_Witness ==
    /\ calls = <<"limit">>
    /\ args = <<Some(10)>>
    /\ ret.some
    /\ ret.v.op = "find_by_id"
    /\ to_sql(ret.v.query) = "SELECT * FROM users WHERE id = '2' LIMIT 1"
    /\ ret.v.result = None

\* The builder holds no join, no condition and no grouping: every row of its
\* table matches it.
MatchesEveryRow(query) ==
    /\ query.joins = <<>>
    /\ query.where_conditions = <<>>
    /\ query.group_by = <<>>
    /\ query.having_conditions = <<>>

\* C21 as stated: count returns the number of rows that match the builder's
\* joins and conditions, whatever its limit, offset and projection (for a
\* builder without joins and conditions: the number of rows of the table), and
\* exists returns true exactly when that number is greater than 0.
C21_CountMatchingRows ==
    (ret.some /\ MatchesEveryRow(q)) =>
        /\ ret.v.op = "count" => ret.v.result = ret.v.table_rows
        /\ ret.v.op = "exists" => ret.v.result = (ret.v.table_rows > 0)

\* The copy of the entity instance a relation object holds.
HeldInstance(self) == IF self.kind = "BelongsTo" THEN self.child ELSE self.parent

\* C22: building a relation through an accessor and calling get_query, get,
\* first, create, save, attach, detach, sync or toggle on it leaves the
\* caller's entity instance as it was; the relation holds its own copy of it.
C22_CallerInstanceUnchanged ==
    [][ /\ owner' = owner
        /\ rel'.some => (owner'.some /\ HeldInstance(rel'.v) = owner'.v) ]_vars

\* C22 witness: a relation was built on a persisted User, its query was
\* derived and create was called, and the User is still there.
C22_Witness ==
    /\ rel.some
    /\ rq.some
    /\ lastop.some
    /\ lastop.v.op = "create"
    /\ owner = Some(Instance("User", Some(VNumber(1)), None))
    /\ HeldInstance(rel.v) = owner.v

\* C23: paginate first calls get on a copy of the builder whose limit and
\* offset are replaced by take(per_page) and skip((page - 1) * per_page), and
\* calls count, on the builder as it was before paginate, only after get has
\* returned: the two calls are never in flight together.
C23_FetchThenCount ==
    pg.pc # "idle" =>
        /\ Cardinality(pg.inflight) <= 1
        /\ pg.fetch_query = [q EXCEPT !.limit_value = Some(pg.per_page),
                                      !.offset_value = Some((pg.page - 1) * pg.per_page)]
        /\ pg.pc = "fetching" => (pg.inflight = {"get"} /\ "count_query" \notin DOMAIN pg)
        /\ pg.pc \in {"counting", "done"} =>
              /\ "results" \in DOMAIN pg
              /\ "get" \notin pg.inflight
              /\ pg.count_query = q
        /\ pg.pc = "counting" <=> pg.inflight = {"count"}

\* C23 witness: limit(5).offset(20).paginate(2, 10) has fetched with LIMIT 10
\* OFFSET 10 and is counting on the builder that still holds LIMIT 5 OFFSET 20.
C23_Witness ==
    /\ calls = <<"limit", "offset">>
    /\ args = <<Some(5), Some(20)>>
    /\ pg.pc = "counting"
    /\ to_sql(pg.fetch_query) = "SELECT * FROM users LIMIT 10 OFFSET 10"
    /\ to_sql(pg.count_query) = "SELECT * FROM users LIMIT 5 OFFSET 20"

\* The having calls of the chain, in call order, each with its value.
HavingCalls ==
    SelectSeq([i \in 1..Len(calls) |-> [method |-> calls[i], arg |-> args[i]]],
              LAMBDA c : c.method = "having")

IsHavingConditionPart(p) == p.kind = "HAVING_CONDITION"

\* C24 as stated: to_sql renders the value of a condition added by
\* having(col, op, value) as it renders the value of a where condition: a
\* string between single quotes, a number or a boolean bare, null as NULL.
C24_HavingRenderedAsWhere ==
    LET hparts == SelectSeq(to_sql_parts(q), IsHavingConditionPart)
    IN  /\ Len(hparts) = Len(HavingCalls)
        /\ \A k \in 1..Len(HavingCalls) :
              /\ hparts[k].text = "total > " \o ScalarLiteral(HavingCalls[k].arg.v)
              /\ hparts[k].text = "total > " \o RenderWhereValue(HavingCalls[k].arg.v)

\* C25 as stated: in every builder reached by builder calls, every order_by
\* entry has direction ASC or DESC, every join has kind INNER, LEFT or RIGHT,
\* and every where and having condition has connective AND or OR, whatever
\* direction string order_by was called with.
C25_EnumeratedFields ==
    /\ \A i \in 1..Len(q.order_by) : q.order_by[i].direction \in {"ASC", "DESC"}
    /\ \A i \in 1..Len(q.joins) : q.joins[i].join_type \in {"INNER", "LEFT", "RIGHT"}
    /\ \A i \in 1..Len(q.where_conditions) : q.where_conditions[i].boolean \in {"AND", "OR"}
    /\ \A i \in 1..Len(q.having_conditions) : q.having_conditions[i].boolean \in {"AND", "OR"}

\* The builder one call makes of a new builder, from the method and the
\* argument recorded for the call.
CallAlone(method, arg) ==
    LET b == Query_new("User")
    IN  CASE method = "where_clause" -> where_clause(b, "status", arg.v.s)
          [] method = "where_op" -> where_op(b, "age", ">", arg.v)
          [] method = "where_in" -> where_in(b, "id", arg.v)
          [] method = "where_not_in" -> where_not_in(b, "id", arg.v)
          [] method = "where_null" -> where_null(b, "deleted_at")
          [] method = "where_not_null" -> where_not_null(b, "email")
          [] method = "or_where" -> or_where(b, "role", "=", arg.v)
          [] method = "join" -> join(b, "posts", "users.id", "=", "posts.user_id")
          [] method = "left_join" -> left_join(b, "profiles", "users.id", "=", "profiles.user_id")
          [] method = "right_join" -> right_join(b, "roles", "users.role_id", "=", "roles.id")
          [] method = "order_by" -> order_by(b, "name", arg.v)
          [] method = "order_by_asc" -> order_by_asc(b, "name")
          [] method = "order_by_desc" -> order_by_desc(b, "name")
          [] method = "latest" -> latest(b, arg)
          [] method = "oldest" -> oldest(b, None)
          [] method = "having" -> having(b, "total", ">", arg.v)
          [] OTHER -> b

\* The texts of the fragments of one kind in to_sql, in the order they stand.
PartTexts(self, kind) ==
    LET ps == SelectSeq(to_sql_parts(self), LAMBDA p : p.kind = kind)
    IN  [i \in 1..Len(ps) |-> ps[i].text]

\* The entries of one kind that the first n calls of a chain add, each as it
\* stands when its call is the only one, in call order.
RECURSIVE InCallOrder(_, _, _, _)
InCallOrder(methods, arguments, kind, n) ==
    IF n = 0 THEN <<>>
    ELSE InCallOrder(methods, arguments, kind, n - 1)
             \o (IF kind = "ORDER_CLAUSES"
                 THEN order_clauses(CallAlone(methods[n], arguments[n]))
                 ELSE PartTexts(CallAlone(methods[n], arguments[n]), kind))

IsPrefix(a, b) == Len(a) <= Len(b) /\ SubSeq(b, 1, Len(a)) = a

\* to_sql of a builder holds the joins, the where conditions, the having
\* conditions and the order_by entries of a chain of calls in call order.
EntriesInCallOrder(self, methods, arguments) ==
    LET n == Len(methods)
        ordering == InCallOrder(methods, arguments, "ORDER_CLAUSES", n)
    IN  /\ \A kind \in {"JOIN", "WHERE_CONDITION", "HAVING_CONDITION"} :
              PartTexts(self, kind) = InCallOrder(methods, arguments, kind, n)
        /\ PartTexts(self, "ORDER_CLAUSES") =
              (IF ordering = <<>> THEN <<>>
               ELSE <<CommaSeparated(ordering, Len(ordering))>>)

\* C26: within each clause kind the call order is preserved: after every
\* builder call the joins, the where conditions, the having conditions and the
\* order_by entries stand in to_sql in the order of their calls, and the call
\* keeps every earlier entry of each kind where it was.
C26_CallOrderPreserved ==
    [][/\ EntriesInCallOrder(q', calls', args')
       /\ \A kind \in {"JOIN", "WHERE_CONDITION", "HAVING_CONDITION"} :
             IsPrefix(PartTexts(q, kind), PartTexts(q', kind))
       /\ IsPrefix(order_clauses(q), order_clauses(q'))]_vars

\* C26 witness: order_by_desc, then order_by, then a where call: the two
\* orderings stand in call order after the later call of another kind.
C26_Witness ==
    /\ calls = <<"order_by_desc", "order_by", "or_where">>
    /\ args[2] = Some("asc")
    /\ args[3] = Some(VNumber(1))
    /\ to_sql(q) = "SELECT * FROM users WHERE role = 1 ORDER BY name DESC, name ASC"

\* The field of the builder that a builder method is said to change.
OwnField(method) ==
    CASE method \in {"select", "select_raw"} -> "select_columns"
      [] IsWhereMethod(method) -> "where_conditions"
      [] method \in {"join", "left_join", "right_join"} -> "joins"
      [] method \in {"order_by", "order_by_asc", "order_by_desc", "latest", "oldest"} -> "order_by"
      [] method \in {"limit", "take"} -> "limit_value"
      [] method \in {"offset", "skip"} -> "offset_value"
      [] method = "group_by" -> "group_by"
      [] method = "having" -> "having_conditions"
      [] method = "with" -> "with_relations"

\* The fields to which a builder method only appends.
AppendedFields == {"where_conditions", "joins", "order_by", "having_conditions"}

\* C28: each builder call changes only the field of its own clause and leaves
\* every other field of the builder as it was; the where, join, order_by and
\* having methods add one entry at the end of their field and keep the entries
\* before it; with changes only the eager-load hints, so to_sql is the same
\* before and after it.
C28_OnlyOwnField ==
    [][LET method == calls'[Len(calls')]
           own == OwnField(method)
       IN  /\ Len(calls') = Len(calls) + 1
           /\ \A f \in DOMAIN q : f # own => q'[f] = q[f]
           /\ own \in AppendedFields =>
                 /\ Len(q'[own]) = Len(q[own]) + 1
                 /\ IsPrefix(q[own], q'[own])
           /\ method = "with" => to_sql(q') = to_sql(q)]_vars

\* C28 witness: a builder with an offset and a limit, on
\* which with was called: it holds the hints and renders as before the call.
C28_Witness ==
    /\ calls = <<"offset", "take", "with">>
    /\ q.with_relations = <<"posts">>
    /\ q.offset_value = Some(20)
    /\ to_sql(q) = "SELECT * FROM users LIMIT 1 OFFSET 20"

\* The rows of a table of `total` rows that fall on a page, the rows numbered
\* from 1: those after the (page - 1) * per_page rows of the pages before it.
RowsOnPage(page, per_page, total) ==
    { r \in 1..total : (page - 1) * per_page < r /\ r <= page * per_page }

\* from and to of a Pagination span the rows of the page.
SpansRowsOfPage(p, page, per_page, total) ==
    /\ p.from - 1 <= p.to
    /\ p.to <= p.from - 1 + per_page
    /\ p.to - p.from + 1 = Cardinality(RowsOnPage(page, per_page, total))
    /\ RowsOnPage(page, per_page, total) = {} => p.from = p.to + 1

\* C29: for every page >= 1, per_page >= 1 and total >= 0 the Pagination of
\* paginate has from - 1 <= to <= from - 1 + per_page, and to - from + 1 is
\* the number of rows of the total that fall on the page, 0 for a page past
\* the end, where from = to + 1.
C29_FromToSpanPage ==
    /\ (pg.pc = "done" /\ pg.page >= 1) =>
          SpansRowsOfPage(pg.result, pg.page, pg.per_page, pg.result.total)
    /\ ("results" \in DOMAIN pg /\ pg.page >= 1) =>
          \A total \in 0..MaxTotal :
              SpansRowsOfPage(Pagination(pg.results, pg.page, pg.per_page, total),
                              pg.page, pg.per_page, total)

\* C29 witness: paginate(3, 2) has returned; the table being empty the page is
\* past the end, and of 5 rows the page would hold the one row 5.
C29_Witness ==
    /\ pg.pc = "done"
    /\ pg.page = 3
    /\ pg.per_page = 2
    /\ pg.result.from = 5
    /\ pg.result.to = 4
    /\ Pagination(pg.results, pg.page, pg.per_page, 5).to = 5

\* C30 as stated: inside the list rendered for where_in / where_not_in every
\* element is rendered as a scalar where value is: a string between single
\* quotes, a number bare, a boolean as true or false, null as NULL.
C30_ListElementsAsScalars ==
    LET wparts == SelectSeq(to_sql_parts(q), IsWhereConditionPart)
    IN  /\ Len(wparts) = Len(WhereCalls)
        /\ \A k \in 1..Len(WhereCalls) :
              WhereCalls[k].method \in {"where_in", "where_not_in"} =>
                  LET values == WhereCalls[k].arg.v
                      literals == [i \in 1..Len(values) |-> ScalarLiteral(values[i])]
                      keyword == IF WhereCalls[k].method = "where_in" THEN "IN" ELSE "NOT IN"
                  IN  /\ \A i \in 1..Len(values) :
                            RenderArrayElement(values[i]) = RenderWhereValue(values[i])
                      /\ wparts[k].text = "id " \o keyword \o " ("
                            \o CommaSeparated(literals, Len(literals)) \o ")"

====
